---- MODULE Spec2Model ----
(***************************************************************************)
(* Requirement lowering of uv: `tool.uv.sources` override tables are read  *)
(* into `Source` values (serde, untagged), and `lower_requirement`         *)
(* combines a parsed PEP 508 requirement with the project-level and        *)
(* workspace-level override maps and the workspace-membership map into a   *)
(* `UvRequirement`.                                                        *)
(*                                                                         *)
(* Every Rust function is an operator computing its outcome.  The outcome  *)
(* of a call is one of                                                     *)
(*     Ok(v)      the function returned Ok(v) (or plain v)                 *)
(*     Err(e)     the function returned Err(e)                             *)
(*     Panic(m)   the function did not return: a `todo!()` was reached     *)
(* `Option<T>` is a sequence of length at most one.                        *)
(***************************************************************************)
EXTENDS Integers, Sequences, FiniteSets, TLC

VARIABLES
    pc,                 \* position of the modelled call sequence
    requirement,        \* the parsed `Requirement` handed to lower_requirement
    project_sources,    \* HashMap<PackageName, Source> of the project
    workspace_sources,  \* HashMap<PackageName, Source> of the workspace
    workspace_packages, \* HashMap<PackageName, PathBuf>: workspace members
    table,              \* one raw `tool.uv.sources` entry: <<name, key/value table>>
    lowered,            \* outcome of the call, None before it
    pyproject,          \* the `PyProjectToml` handed to UvMetadata::try_from
    extras_specification, \* the `extras` handed to UvMetadata::try_from
    metadata,           \* outcome of UvMetadata::try_from, None before it
    flatten_requirements, \* the `requirements` handed to flatten_extra
    flatten_map,        \* the `extras` map handed to flatten_extra
    flatten_stack,      \* the frames of `inner`, the running one last
    flatten_seen,       \* the `seen` set threaded through `inner`
    flatten_result,     \* what flatten_extra returned, None before it
    named_parse,        \* what Requirement::parse makes of the input
    unnamed_parse,      \* what UnnamedRequirement::parse makes of the input
    txt_parsed,           \* outcome of RequirementsTxtRequirement::parse
    txt_requirement,    \* the RequirementsTxtRequirement that is evaluated
    environment,        \* the MarkerEnvironment handed to evaluate_markers
    enabled_extras,     \* the extras handed to evaluate_markers
    evaluation,         \* what evaluate_markers returned, None before it
    pip_command,        \* the pip command whose settings are resolved
    pip_args,           \* the command-line arguments of the command
    pip_workspace,      \* the `Option<Workspace>` handed to resolve
    pip_settings        \* the PipSharedSettings resolved, None before it

\* the variables of the calls of lower_requirement
lower_vars == <<requirement, project_sources, table, lowered>>
\* the variables of the calls of UvMetadata::try_from
meta_vars == <<pyproject, extras_specification, metadata>>

\* the variables of the calls of flatten_extra
flatten_vars ==
    <<flatten_requirements, flatten_map, flatten_stack, flatten_seen,
      flatten_result>>
\* the variables of the calls on a RequirementsTxtRequirement
txt_vars ==
    <<named_parse, unnamed_parse, txt_parsed, txt_requirement, environment,
      enabled_extras, evaluation>>

\* the variables of the calls that resolve the settings of a pip command
settings_vars == <<pip_command, pip_args, pip_workspace, pip_settings>>

vars ==
    <<pc, workspace_sources, workspace_packages, lower_vars, meta_vars,
      flatten_vars, txt_vars, settings_vars>>

----------------------------------------------------------------------------
(* Option and call outcomes *)

None == <<>>
Some(x) == <<x>>
IsSome(o) == o # None
Unwrap(o) == o[1]

Ok(v) == [kind |-> "Ok", value |-> v]
Err(e) == [kind |-> "Err", error |-> e]
Panic(m) == [kind |-> "Panic", message |-> m]

IsOk(r) == r.kind = "Ok"
IsErr(r) == r.kind = "Err"
IsPanic(r) == r.kind = "Panic"

EmptyMap == <<>>

----------------------------------------------------------------------------
(* Bounds and sample values of the inputs *)

\* longest `extras` list of a requirement
MaxExtras == 1
\* most entries the two override maps hold together
MaxEntries == 2
\* most keys of one raw override table
MaxKeys == 2

PackageNames == {"pkg", "dep"}
\* the package the requirement under lowering names
RequirementNames == {"pkg"}
ExtraNames == {"test"}
WorkspacePaths == {"/ws/a", "/ws/b"}
GoodUrl == "https://example.org/repo"
BadUrl == "not a url"
UrlStrings == {GoodUrl, BadUrl}
VersionSpecifierSamples == {">=1,<2"}
MarkerSamples == {"python_version >= '3.8'"}

Option(S) == {None} \cup {Some(x) : x \in S}
SeqsUpTo(S, n) == UNION {[1..k -> S] : k \in 0..n}

----------------------------------------------------------------------------
(* Data model *)

\* pep508_rs::VersionOrUrl, under Option
VersionSpecifier(v) == [kind |-> "VersionSpecifier", version |-> v]
UrlRequirement(u) == [kind |-> "Url", url |-> u]

VersionOrUrl ==
    {VersionSpecifier(v) : v \in VersionSpecifierSamples}
        \cup {UrlRequirement(GoodUrl)}

\* pep508_rs::Requirement
Requirements ==
    [name : RequirementNames,
     extras : SeqsUpTo(ExtraNames, MaxExtras),
     marker : Option(MarkerSamples),
     version_or_url : Option(VersionOrUrl)]

\* enum Source
SourceGit(git, rev, tag, branch) ==
    [variant |-> "Git", git |-> git, rev |-> rev, tag |-> tag, branch |-> branch]
SourceUrl(url) == [variant |-> "Url", url |-> url]
SourcePath(patch, editable) ==
    [variant |-> "Path", patch |-> patch, editable |-> editable]
SourceRegistry(index) == [variant |-> "Registry", index |-> index]
SourceWorkspace(workspace, editable) ==
    [variant |-> "Workspace", workspace |-> workspace, editable |-> editable]
SourceCatchAll(git, rev, tag, branch, url, patch, index, workspace) ==
    [variant |-> "CatchAll", git |-> git, rev |-> rev, tag |-> tag,
     branch |-> branch, url |-> url, patch |-> patch, index |-> index,
     workspace |-> workspace]

Sources ==
    {SourceGit(GoodUrl, rev, tag, branch) :
        rev \in Option({"abc"}), tag \in Option({"v1"}), branch \in Option({"main"})}
    \cup {SourceGit(BadUrl, None, None, None)}
    \cup {SourceUrl(u) : u \in UrlStrings}
    \cup {SourcePath("../lib", None)}
    \cup {SourceRegistry("internal")}
    \cup {SourceWorkspace(w, None) : w \in BOOLEAN}
    \cup {SourceCatchAll(GoodUrl, None, None, None, GoodUrl, "../lib", "internal", TRUE)}

\* enum GitVersion
GitVersionRev(s) == [kind |-> "Rev", value |-> s]
GitVersionTag(s) == [kind |-> "Tag", value |-> s]
GitVersionBranch(s) == [kind |-> "Branch", value |-> s]

\* enum UvSource
UvSourceRegistry(version, index) ==
    [variant |-> "Registry", version |-> version, index |-> index]
UvSourceUrl(url) == [variant |-> "Url", url |-> url]
UvSourceGit(git, version) == [variant |-> "Git", git |-> git, version |-> version]

\* struct UvRequirement
UvRequirement(name, extras, marker, source) ==
    [name |-> name, extras |-> extras, marker |-> marker, source |-> source]

\* VersionSpecifiers::empty()
VersionSpecifiersEmpty == ""

\* VerbatimUrl::from_str: the URL is parsed, the text it was given as is kept
VerbatimUrlFromStr(s) ==
    IF s = BadUrl THEN Err([type |-> "Url", given |-> s])
    ELSE Ok([url |-> s, given |-> Some(s)])

----------------------------------------------------------------------------
(* pep508-rs: UvRequirement::from_requirement *)

\* faulty variant: the version constraint is dropped
from_requirement_drops_version(req) ==
    IF req.version_or_url # None /\ Unwrap(req.version_or_url).kind = "Url"
    THEN Panic("not yet implemented: match on the url type")
    ELSE Ok(UvRequirement(req.name, req.extras, req.marker,
                          UvSourceRegistry(VersionSpecifiersEmpty, None)))

from_requirement(req) ==
    IF req.version_or_url = None
    THEN Ok(UvRequirement(req.name, req.extras, req.marker,
                          UvSourceRegistry(VersionSpecifiersEmpty, None)))
    ELSE IF Unwrap(req.version_or_url).kind = "VersionSpecifier"
    THEN Ok(UvRequirement(req.name, req.extras, req.marker,
                          UvSourceRegistry(Unwrap(req.version_or_url).version, None)))
    ELSE Panic("not yet implemented: match on the url type")

----------------------------------------------------------------------------
(* uv-requirements: lower_requirement *)

\* faulty variant: the workspace map is consulted first
lookup_source_workspace_first(name, psources, wsources) ==
    IF name \in DOMAIN wsources THEN Some(wsources[name])
    ELSE IF name \in DOMAIN psources THEN Some(psources[name])
    ELSE None

\* project_sources.get(name).or(workspace_sources.get(name)).cloned()
lookup_source(name, psources, wsources) ==
    IF name \in DOMAIN psources THEN Some(psources[name])
    ELSE IF name \in DOMAIN wsources THEN Some(wsources[name])
    ELSE None

\* faulty variant: `workspace = false` passes as a workspace override
is_workspace_any(source) ==
    IsSome(source) /\ Unwrap(source).variant = "Workspace"

\* matches!(source, Some(Source::Workspace { workspace: true, .. }))
is_workspace_true(source) ==
    /\ IsSome(source)
    /\ Unwrap(source).variant = "Workspace"
    /\ Unwrap(source).workspace = TRUE

\* the guard of the workspace-member bail!
workspace_member_violation(req, source, wpackages) ==
    ~is_workspace_true(source) /\ req.name \in DOMAIN wpackages

\* faulty variant: the version constraint is not asked for
lower_without_source_unchecked(req) == from_requirement(req)

\* the let-else branch: no override for the name
lower_without_source(req) ==
    IF req.version_or_url = None
    THEN Err([type |-> "MissingVersionConstraint"])
    ELSE from_requirement(req)

\* faulty variant: with several of rev, tag, branch the first one wins
git_ref_first_wins(rev, tag, branch) ==
    IF rev # None THEN Ok(Some(GitVersionRev(Unwrap(rev))))
    ELSE IF tag # None THEN Ok(Some(GitVersionTag(Unwrap(tag))))
    ELSE IF branch # None THEN Ok(Some(GitVersionBranch(Unwrap(branch))))
    ELSE Ok(None)

\* faulty variant: a tag is taken for a branch
git_ref_tag_as_branch(rev, tag, branch) ==
    IF rev = None /\ tag = None /\ branch = None THEN Ok(None)
    ELSE IF rev # None /\ tag = None /\ branch = None
    THEN Ok(Some(GitVersionRev(Unwrap(rev))))
    ELSE IF rev = None /\ tag # None /\ branch = None
    THEN Ok(Some(GitVersionBranch(Unwrap(tag))))
    ELSE IF rev = None /\ tag = None /\ branch # None
    THEN Ok(Some(GitVersionBranch(Unwrap(branch))))
    ELSE Err([type |-> "GitRefConflict"])

\* match (rev, tag, branch)
git_ref(rev, tag, branch) ==
    IF rev = None /\ tag = None /\ branch = None THEN Ok(None)
    ELSE IF rev # None /\ tag = None /\ branch = None
    THEN Ok(Some(GitVersionRev(Unwrap(rev))))
    ELSE IF rev = None /\ tag # None /\ branch = None
    THEN Ok(Some(GitVersionTag(Unwrap(tag))))
    ELSE IF rev = None /\ tag = None /\ branch # None
    THEN Ok(Some(GitVersionBranch(Unwrap(branch))))
    ELSE Err([type |-> "GitRefConflict"])

\* the Source::Git arm
lower_git(source) ==
    LET ref == git_ref(source.rev, source.tag, source.branch)
        url == VerbatimUrlFromStr(source.git)
    IN  IF ~IsOk(ref) THEN ref
        ELSE IF ~IsOk(url) THEN url
        ELSE Ok(UvSourceGit(url.value, ref.value))

\* the Source::Url arm
lower_url(source) ==
    LET url == VerbatimUrlFromStr(source.url)
    IN  IF ~IsOk(url) THEN url ELSE Ok(UvSourceUrl(url.value))

\* faulty variant: CatchAll is lowered like Git
lower_source_catch_all_as_git(source, req) ==
    CASE source.variant \in {"Git", "CatchAll"} -> lower_git(source)
      [] source.variant = "Url" -> lower_url(source)
      [] source.variant \in {"Path", "Registry", "Workspace"} ->
            Panic("not yet implemented")

\* match source { ... }: the UvSource of an override, an error or a panic
lower_source(source, req) ==
    CASE source.variant = "Git" -> lower_git(source)
      [] source.variant = "Url" -> lower_url(source)
      [] source.variant = "Path" -> Panic("not yet implemented")
      [] source.variant = "Registry" -> Panic("not yet implemented")
      [] source.variant = "Workspace" -> Panic("not yet implemented")
      [] source.variant = "CatchAll" ->
            Err([type |-> "CatchAll", name |-> req.name])

\* faulty variant: the workspace-member check comes after the other checks
lower_requirement_member_check_late(req, psources, wsources, wpackages) ==
    LET source == lookup_source(req.name, psources, wsources)
        member == workspace_member_violation(req, source, wpackages)
        result == IF source = None THEN lower_without_source(req)
                  ELSE lower_source(Unwrap(source), req)
    IN  IF ~IsOk(result) THEN result
        ELSE IF member THEN Err([type |-> "WorkspacePackage", name |-> req.name])
        ELSE IF source = None THEN result
        ELSE Ok(UvRequirement(req.name, req.extras, req.marker, result.value))

\* faulty variant: the version constraint is asked for before the override
\* is looked at
lower_requirement_version_first(req, psources, wsources, wpackages) ==
    LET source == lookup_source(req.name, psources, wsources)
    IN  IF workspace_member_violation(req, source, wpackages)
        THEN Err([type |-> "WorkspacePackage", name |-> req.name])
        ELSE IF req.version_or_url = None
        THEN Err([type |-> "MissingVersionConstraint"])
        ELSE IF source = None THEN from_requirement(req)
        ELSE LET uvsource == lower_source(Unwrap(source), req)
             IN  IF ~IsOk(uvsource) THEN uvsource
                 ELSE Ok(UvRequirement(req.name, req.extras, req.marker,
                                       uvsource.value))

lower_requirement(req, psources, wsources, wpackages) ==
    LET source == lookup_source(req.name, psources, wsources)
    IN  IF workspace_member_violation(req, source, wpackages)
        THEN Err([type |-> "WorkspacePackage", name |-> req.name])
        ELSE IF source = None THEN lower_without_source(req)
        ELSE LET uvsource == lower_source(Unwrap(source), req)
             IN  IF ~IsOk(uvsource) THEN uvsource
                 ELSE Ok(UvRequirement(req.name, req.extras, req.marker,
                                       uvsource.value))

----------------------------------------------------------------------------------------------------------------------------------------
(* serde: the untagged enum Source read from one `tool.uv.sources` table.   *)
(* The variants are tried in declaration order and the first one whose      *)
(* fields all deserialize wins; a key of the table that is no field of the  *)
(* variant is ignored (no deny_unknown_fields), a missing Option field is   *)
(* None.                                                                    *)

TomlString(s) == [type |-> "string", text |-> s]
TomlBoolean(b) == [type |-> "boolean", text |-> IF b THEN "true" ELSE "false"]

StringKeys == {"git", "rev", "tag", "branch", "url", "path", "patch", "index"}
BooleanKeys == {"editable", "workspace"}
TableKeys == StringKeys \cup BooleanKeys

KeySample(k) ==
    CASE k = "git" -> GoodUrl
      [] k = "url" -> GoodUrl
      [] k = "rev" -> "abc"
      [] k = "tag" -> "v1"
      [] k = "branch" -> "main"
      [] k = "path" -> "../lib"
      [] k = "patch" -> "../lib"
      [] k = "index" -> "internal"

KeyValues(k) ==
    IF k \in BooleanKeys THEN {TomlBoolean(b) : b \in BOOLEAN}
    ELSE {TomlString(KeySample(k))}

\* the tables of at most MaxKeys keys
Tables ==
    UNION {{t \in [K -> UNION {KeyValues(k) : k \in K}] :
                \A k \in K : t[k] \in KeyValues(k)} :
           K \in {K \in SUBSET TableKeys : Cardinality(K) <= MaxKeys}}

\* a required field `k: String`
field_string(t, k) == k \in DOMAIN t /\ t[k].type = "string"
\* a required field `k: bool`
field_bool(t, k) == k \in DOMAIN t /\ t[k].type = "boolean"
\* a field `k: Option<String>` deserializes
field_opt_string(t, k) == k \in DOMAIN t => t[k].type = "string"
\* a field `k: Option<bool>` deserializes
field_opt_bool(t, k) == k \in DOMAIN t => t[k].type = "boolean"

opt_string(t, k) == IF k \in DOMAIN t THEN Some(t[k].text) ELSE None
opt_bool(t, k) == IF k \in DOMAIN t THEN Some(t[k].text = "true") ELSE None

matches_git(t) ==
    /\ field_string(t, "git")
    /\ field_opt_string(t, "rev")
    /\ field_opt_string(t, "tag")
    /\ field_opt_string(t, "branch")
matches_url(t) == field_string(t, "url")
matches_path(t) == field_string(t, "patch") /\ field_opt_bool(t, "editable")
matches_registry(t) == field_string(t, "index")
matches_workspace(t) == field_bool(t, "workspace") /\ field_opt_bool(t, "editable")
matches_catch_all(t) ==
    /\ field_string(t, "git")
    /\ field_opt_string(t, "rev")
    /\ field_opt_string(t, "tag")
    /\ field_opt_string(t, "branch")
    /\ field_string(t, "url")
    /\ field_string(t, "patch")
    /\ field_string(t, "index")
    /\ field_bool(t, "workspace")

deserialize_source(t) ==
    IF matches_git(t)
    THEN Ok(SourceGit(t["git"].text, opt_string(t, "rev"), opt_string(t, "tag"),
                      opt_string(t, "branch")))
    ELSE IF matches_url(t) THEN Ok(SourceUrl(t["url"].text))
    ELSE IF matches_path(t)
    THEN Ok(SourcePath(t["patch"].text, opt_bool(t, "editable")))
    ELSE IF matches_registry(t) THEN Ok(SourceRegistry(t["index"].text))
    ELSE IF matches_workspace(t)
    THEN Ok(SourceWorkspace(t["workspace"].text = "true", opt_bool(t, "editable")))
    ELSE IF matches_catch_all(t)
    THEN Ok(SourceCatchAll(t["git"].text, opt_string(t, "rev"),
                           opt_string(t, "tag"), opt_string(t, "branch"),
                           t["url"].text, t["patch"].text, t["index"].text,
                           t["workspace"].text = "true"))
    ELSE Err([type |-> "NoVariantMatched"])

----------------------------------------------------------------------------
(* The calls.  Either lower_requirement is called directly on override     *)
(* maps built in code (pc = "input"), or the project's override map is     *)
(* first read from a manifest holding one `tool.uv.sources` entry          *)
(* (pc = "manifest").                                                      *)

SourceMaps == UNION {[D -> Sources] : D \in SUBSET PackageNames}
PackageMaps == UNION {[D -> WorkspacePaths] : D \in SUBSET PackageNames}

NoTable == <<>>

\* no call of UvMetadata::try_from is modelled
MetaIdle == pyproject = None /\ extras_specification = None /\ metadata = None

\* no call of flatten_extra is modelled
FlattenIdle ==
    /\ flatten_requirements = <<>>
    /\ flatten_map = <<>>
    /\ flatten_stack = <<>>
    /\ flatten_seen = {}
    /\ flatten_result = None

\* no settings are resolved
SettingsIdle ==
    /\ pip_command = ""
    /\ pip_args = None
    /\ pip_workspace = None
    /\ pip_settings = None

\* no call on a RequirementsTxtRequirement is modelled
TxtIdle ==
    /\ named_parse = None
    /\ unnamed_parse = None
    /\ txt_parsed = None
    /\ txt_requirement = None
    /\ environment = None
    /\ enabled_extras = <<>>
    /\ evaluation = None

InitLower ==
    /\ pc = "input"
    /\ requirement \in Requirements
    /\ project_sources \in SourceMaps
    /\ workspace_sources \in SourceMaps
    /\ Cardinality(DOMAIN project_sources)
         + Cardinality(DOMAIN workspace_sources) <= MaxEntries
    /\ workspace_packages \in PackageMaps
    /\ table = NoTable
    /\ lowered = None
    /\ MetaIdle
    /\ FlattenIdle
    /\ TxtIdle
    /\ SettingsIdle

InitManifest ==
    /\ pc = "manifest"
    /\ requirement \in Requirements
    /\ table \in PackageNames \X Tables
    /\ project_sources = EmptyMap
    /\ workspace_sources = EmptyMap
    /\ workspace_packages \in PackageMaps
    /\ lowered = None
    /\ MetaIdle
    /\ FlattenIdle
    /\ TxtIdle
    /\ SettingsIdle

Init == InitLower \/ InitManifest

\* the manifest is deserialized: the override table becomes the project's
\* override map, or the manifest is rejected
ReadManifest ==
    /\ pc = "manifest"
    /\ LET source == deserialize_source(table[2])
       IN  IF IsOk(source)
           THEN /\ project_sources' = (table[1] :> source.value)
                /\ lowered' = lowered
                /\ pc' = "input"
           ELSE /\ project_sources' = project_sources
                /\ lowered' = Some(source)
                /\ pc' = "rejected"
    /\ UNCHANGED <<requirement, workspace_sources, workspace_packages, table>>
    /\ UNCHANGED <<meta_vars, flatten_vars, txt_vars, settings_vars>>

LowerRequirement ==
    /\ pc = "input"
    /\ lowered' = Some(lower_requirement(requirement, project_sources,
                                         workspace_sources, workspace_packages))
    /\ pc' = "lowered"
    /\ UNCHANGED <<requirement, project_sources, workspace_sources,
                   workspace_packages, table>>
    /\ UNCHANGED <<meta_vars, flatten_vars, txt_vars, settings_vars>>

Next == ReadManifest \/ LowerRequirement

Spec == Init /\ [][Next]_vars

\* the calls of lower_requirement on override maps given directly
NextLower == LowerRequirement

SpecLower == InitLower /\ [][NextLower]_vars

----------------------------------------------------------------------------
(* uv-requirements: flatten_extra.  `inner` walks the requirements; a      *)
(* requirement naming the project is replaced by the groups of the extras  *)
(* it lists, each extra entered at most once (`seen`).  The walk yields    *)
(* the flattened list and the `seen` set it leaves behind.                 *)
(* An IndexMap is the sequence of its <<key, value>> entries.              *)

IndexKeys(map) == {map[i][1] : i \in DOMAIN map}
IndexGet(map, key) == map[CHOOSE i \in DOMAIN map : map[i][1] = key][2]

RECURSIVE inner(_, _, _, _)
RECURSIVE inner_extras(_, _, _, _)

\* for extra in &requirement.extras { ... }
inner_extras(project_name, extra_names, optional, acc) ==
    IF extra_names = <<>> THEN acc
    ELSE LET extra == Head(extra_names)
         IN  IF extra \in acc.seen
             THEN inner_extras(project_name, Tail(extra_names), optional, acc)
             ELSE LET marked == [acc EXCEPT !.seen = @ \cup {extra}]
                      sub == IF extra \in IndexKeys(optional)
                             THEN inner(project_name, IndexGet(optional, extra),
                                        optional,
                                        [flattened |-> <<>>, seen |-> marked.seen])
                             ELSE [flattened |-> <<>>, seen |-> marked.seen]
                  IN  inner_extras(project_name, Tail(extra_names), optional,
                          [flattened |-> acc.flattened \o sub.flattened,
                           seen |-> sub.seen])

\* faulty variant: a requirement already in the list is not pushed again
inner_deduplicates(project_name, requirements, optional, acc) ==
    IF requirements = <<>> THEN acc
    ELSE LET req == Head(requirements)
         IN  IF req.name = project_name
             THEN inner(project_name, Tail(requirements), optional,
                        inner_extras(project_name, req.extras, optional, acc))
             ELSE inner(project_name, Tail(requirements), optional,
                        IF \E i \in DOMAIN acc.flattened : acc.flattened[i] = req
                        THEN acc
                        ELSE [acc EXCEPT !.flattened = Append(@, req)])

\* faulty variant: a self-reference that lists no extras is pushed
inner_keeps_bare_self(project_name, requirements, optional, acc) ==
    IF requirements = <<>> THEN acc
    ELSE LET req == Head(requirements)
         IN  IF req.name = project_name /\ req.extras # <<>>
             THEN inner(project_name, Tail(requirements), optional,
                        inner_extras(project_name, req.extras, optional, acc))
             ELSE inner(project_name, Tail(requirements), optional,
                        [acc EXCEPT !.flattened = Append(@, req)])

\* for requirement in requirements { ... }, from the state `acc`
inner(project_name, requirements, optional, acc) ==
    IF requirements = <<>> THEN acc
    ELSE LET req == Head(requirements)
         IN  IF req.name = project_name
             THEN inner(project_name, Tail(requirements), optional,
                        inner_extras(project_name, req.extras, optional, acc))
             ELSE inner(project_name, Tail(requirements), optional,
                        [acc EXCEPT !.flattened = Append(@, req)])

flatten_extra(project_name, requirements, optional) ==
    inner(project_name, requirements, optional,
          [flattened |-> <<>>, seen |-> {}]).flattened

----------------------------------------------------------------------------
(* uv-requirements: lower_requirements and UvMetadata::try_from *)

\* Requirement::from_str on the dependency texts of the manifests
RequirementFromStr(text) ==
    CASE text = "pep517>=1" ->
            Ok([name |-> "pep517", extras |-> <<>>, marker |-> None,
                version_or_url |-> Some(VersionSpecifier(">=1"))])
      [] text = "tomli" ->
            Ok([name |-> "tomli", extras |-> <<>>, marker |-> None,
                version_or_url |-> None])
      [] text = "proj[test]" ->
            Ok([name |-> "proj", extras |-> <<"test">>, marker |-> None,
                version_or_url |-> None])
      [] text = "proj[test]>=0" ->
            Ok([name |-> "proj", extras |-> <<"test">>, marker |-> None,
                version_or_url |-> Some(VersionSpecifier(">=0"))])
      [] text = "tomli>=2" ->
            Ok([name |-> "tomli", extras |-> <<>>, marker |-> None,
                version_or_url |-> Some(VersionSpecifier(">=2"))])
      [] text = "proj[dev]>=0" ->
            Ok([name |-> "proj", extras |-> <<"dev">>, marker |-> None,
                version_or_url |-> Some(VersionSpecifier(">=0"))])
      [] OTHER -> Err([type |-> "Pep508"])

\* enum ExtrasSpecification
ExtrasNone == [kind |-> "None"]
ExtrasAll == [kind |-> "All"]
ExtrasSome(names) == [kind |-> "Some", names |-> names]

\* ExtrasSpecification::is_empty
extras_is_empty(extras) == extras.kind = "None"

\* ExtrasSpecification::contains
extras_contains(extras, name) ==
    CASE extras.kind = "None" -> FALSE
      [] extras.kind = "All" -> TRUE
      [] extras.kind = "Some" -> \E i \in DOMAIN extras.names : extras.names[i] = name

\* .with_context(|| format!("Failed to parse `{name}`")) on the lowering of
\* the parsed entry
with_context(parsed, result) ==
    IF IsErr(result)
    THEN Err([type |-> "Context", name |-> parsed.value.name,
              source |-> result.error])
    ELSE result

\* Requirement::from_str(dependency)?: a text that does not parse ends the
\* entry, a parsed one is lowered
lower_parsed(parsed, psources, wsources, wpackages) ==
    IF ~IsOk(parsed) THEN parsed
    ELSE with_context(parsed,
            lower_requirement(parsed.value, psources, wsources, wpackages))

\* one entry: Requirement::from_str(dependency)?, then lower_requirement
\* with the context of the entry's name
lower_dependency(dependency, psources, wsources, wpackages) ==
    lower_parsed(RequirementFromStr(dependency), psources, wsources, wpackages)

\* .iter().map(...).collect::<anyhow::Result<_>>(): the lowered entries in
\* order, or the first entry's failure
RECURSIVE collect_dependencies(_, _, _, _, _)
RECURSIVE collect_entry(_, _, _, _, _, _)

\* faulty variant: an entry that fails is left out, the rest is lowered
collect_entry_skips_failed(result, rest, done, psources, wsources, wpackages) ==
    IF ~IsOk(result)
    THEN collect_dependencies(rest, done, psources, wsources, wpackages)
    ELSE collect_dependencies(rest, Append(done, result.value), psources,
                              wsources, wpackages)

\* the entry's outcome `result` ends the collection or is added to it
collect_entry(result, rest, done, psources, wsources, wpackages) ==
    IF ~IsOk(result) THEN result
    ELSE collect_dependencies(rest, Append(done, result.value), psources,
                              wsources, wpackages)

collect_dependencies(dependencies, done, psources, wsources, wpackages) ==
    IF dependencies = <<>> THEN Ok(done)
    ELSE collect_entry(lower_dependency(Head(dependencies), psources, wsources,
                                        wpackages),
                       Tail(dependencies), done, psources, wsources, wpackages)

\* the same over the groups of optional_dependencies, in the map's order
RECURSIVE collect_optional(_, _, _, _, _)
RECURSIVE collect_group(_, _, _, _, _, _)

\* faulty variant: a lowered group is put in front of the earlier ones
collect_group_reversed(group, optional, done, psources, wsources, wpackages) ==
    IF ~IsOk(group) THEN group
    ELSE collect_optional(Tail(optional),
                          <<(<<Head(optional)[1], group.value>>)>> \o done,
                          psources, wsources, wpackages)

\* the group's outcome `group` ends the collection or is added to it
collect_group(group, optional, done, psources, wsources, wpackages) ==
    IF ~IsOk(group) THEN group
    ELSE collect_optional(Tail(optional),
                          Append(done, <<Head(optional)[1], group.value>>),
                          psources, wsources, wpackages)

collect_optional(optional, done, psources, wsources, wpackages) ==
    IF optional = <<>> THEN Ok(done)
    ELSE collect_group(collect_dependencies(Head(optional)[2], <<>>, psources,
                                            wsources, wpackages),
                       optional, done, psources, wsources, wpackages)

\* Ok(UvRequirements { dependencies, optional_dependencies }), unless one of
\* the two collections failed (`?`), the dependencies first
uv_requirements_of(deps, groups) ==
    IF ~IsOk(deps) THEN deps
    ELSE IF ~IsOk(groups) THEN groups
    ELSE Ok([dependencies |-> deps.value, optional_dependencies |-> groups.value])

lower_requirements(dependencies, optional, psources, wsources, wpackages) ==
    uv_requirements_of(
        collect_dependencies(dependencies, <<>>, psources, wsources, wpackages),
        collect_optional(optional, <<>>, psources, wsources, wpackages))

\* Option::unwrap_or_default
unwrap_or_default(option) == IF option = None THEN <<>> ELSE Unwrap(option)

\* faulty variant: an empty sources table counts as no table
tool_uv_sources_nonempty(manifest) ==
    IF manifest.tool = None THEN None
    ELSE IF Unwrap(manifest.tool).uv = None THEN None
    ELSE IF Unwrap(Unwrap(manifest.tool).uv).sources = Some(EmptyMap) THEN None
    ELSE Unwrap(Unwrap(manifest.tool).uv).sources

\* pyproject.tool.and_then(|tool| tool.uv).and_then(|uv| uv.sources)
tool_uv_sources(manifest) ==
    IF manifest.tool = None THEN None
    ELSE IF Unwrap(manifest.tool).uv = None THEN None
    ELSE Unwrap(Unwrap(manifest.tool).uv).sources

\* faulty variant: the workspace's override map is not looked at
has_sources_project_only(manifest, wsources) ==
    tool_uv_sources(manifest) # None

has_sources(manifest, wsources) ==
    tool_uv_sources(manifest) # None \/ DOMAIN wsources # {}

\* faulty variant: a missing entry is never an error
missing_entry_never_fails(entry, manifest, wsources) == Ok(None)

\* return if has_sources { Err(MissingEntry(entry)) } else { Ok(None) }
missing_entry(entry, manifest, wsources) ==
    IF has_sources(manifest, wsources)
    THEN Err([type |-> "MissingEntry", entry |-> entry])
    ELSE Ok(None)

\* faulty variant: any dynamic field counts
dynamic_lists_any(project, field) ==
    project.dynamic # None /\ Unwrap(project.dynamic) # <<>>

\* dynamic.iter().any(|field| field == name)
dynamic_lists(project, field) ==
    /\ project.dynamic # None
    /\ \E i \in DOMAIN Unwrap(project.dynamic) : Unwrap(project.dynamic)[i] = field

\* faulty variant: every group is recorded as used, requested or not
RECURSIVE include_extras_records_all(_, _, _, _, _)
include_extras_records_all(name, extras, optional, rest, acc) ==
    IF rest = <<>> THEN acc
    ELSE include_extras_records_all(name, extras, optional, Tail(rest),
            [requirements |->
                IF extras_contains(extras, Head(rest)[1])
                THEN acc.requirements
                        \o flatten_extra(name, Head(rest)[2], optional)
                ELSE acc.requirements,
             used_extras |-> acc.used_extras \cup {Head(rest)[1]}])

\* the entries of `optional` whose key is not in `used`
RECURSIVE without_keys(_, _)
without_keys(optional, used) ==
    IF optional = <<>> THEN <<>>
    ELSE IF Head(optional)[1] \in used THEN without_keys(Tail(optional), used)
    ELSE <<Head(optional)>> \o without_keys(Tail(optional), used)

\* faulty variant: an extra already used is not entered again from a later one
RECURSIVE include_extras_shares_seen(_, _, _, _, _)
include_extras_shares_seen(name, extras, optional, rest, acc) ==
    IF rest = <<>> THEN acc
    ELSE IF extras_contains(extras, Head(rest)[1])
    THEN include_extras_shares_seen(name, extras, optional, Tail(rest),
            [requirements |-> acc.requirements
                    \o flatten_extra(name, Head(rest)[2],
                                     without_keys(optional, acc.used_extras)),
             used_extras |-> acc.used_extras \cup {Head(rest)[1]}])
    ELSE include_extras_shares_seen(name, extras, optional, Tail(rest), acc)

\* the loop over uv_requirements.optional_dependencies, from the state `acc`
RECURSIVE include_extras(_, _, _, _, _)
include_extras(name, extras, optional, rest, acc) ==
    IF rest = <<>> THEN acc
    ELSE IF extras_contains(extras, Head(rest)[1])
    THEN include_extras(name, extras, optional, Tail(rest),
            [requirements |-> acc.requirements
                                \o flatten_extra(name, Head(rest)[2], optional),
             used_extras |-> acc.used_extras \cup {Head(rest)[1]}])
    ELSE include_extras(name, extras, optional, Tail(rest), acc)

\* UvMetadata { name, requirements, used_extras }
uv_metadata(name, acc) ==
    [name |-> name, requirements |-> acc.requirements,
     used_extras |-> acc.used_extras]

\* the base requirements, no extra used yet
base_requirements(uv_requirements) ==
    [requirements |-> uv_requirements.dependencies, used_extras |-> {}]

\* the tail of try_from: the lowered requirements joined with the extras
extract_metadata(name, extras, uv_requirements) ==
    uv_metadata(name,
        IF ~extras_is_empty(extras)
        THEN include_extras(name, extras,
                            uv_requirements.optional_dependencies,
                            uv_requirements.optional_dependencies,
                            base_requirements(uv_requirements))
        ELSE base_requirements(uv_requirements))

\* lower_requirements(...)?: its error is a LoweringError, its value is
\* joined with the extras
extract_lowered(project, extras, uv_requirements) ==
    IF IsErr(uv_requirements)
    THEN Err([type |-> "LoweringError", source |-> uv_requirements.error])
    ELSE IF IsPanic(uv_requirements) THEN uv_requirements
    ELSE Ok(Some(extract_metadata(project.name, extras, uv_requirements.value)))

\* try_from once the [project] table is there
try_from_project(project, manifest, extras, wsources, wpackages) ==
    IF dynamic_lists(project, "dependencies")
    THEN missing_entry("[project.dependencies]", manifest, wsources)
    ELSE IF ~extras_is_empty(extras)
              /\ dynamic_lists(project, "optional-dependencies")
    THEN missing_entry("[project.optional-dependencies]", manifest, wsources)
    ELSE extract_lowered(project, extras,
            lower_requirements(
                unwrap_or_default(project.dependencies),
                unwrap_or_default(project.optional_dependencies),
                unwrap_or_default(tool_uv_sources(manifest)),
                wsources, wpackages))

try_from(manifest, extras, wsources, wpackages) ==
    IF manifest.project = None
    THEN missing_entry("[project]", manifest, wsources)
    ELSE try_from_project(Unwrap(manifest.project), manifest, extras, wsources,
                          wpackages)

----------------------------------------------------------------------------
(* Calls of UvMetadata::try_from on the manifests of a project `proj` *)

\* longest list of dependency texts (`dependencies`, and each optional group)
MaxDeps == 1

ProjectName == "proj"
GroupNames == {"dev", "test"}
DependencyTexts == {"pep517>=1", "proj[test]", "proj[test]>=0"}
DependencyLists == SeqsUpTo(DependencyTexts, MaxDeps)

\* IndexMap<ExtraName, Vec<String>>: entries in order, keys distinct
OptionalDependencies ==
    {m \in SeqsUpTo(GroupNames \X DependencyLists, Cardinality(GroupNames)) :
        \A i, j \in DOMAIN m : m[i][1] = m[j][1] => i = j}

DynamicLists ==
    {<<"dependencies">>, <<"optional-dependencies">>, <<"version">>,
     <<"version", "optional-dependencies", "dependencies">>}

\* struct Project
Projects ==
    [name : {ProjectName},
     dependencies : Option(DependencyLists),
     optional_dependencies : Option(OptionalDependencies),
     dynamic : Option(DynamicLists)]

\* struct Tool, struct Uv: no `sources`, an empty table, one override
Tools ==
    {None,
     Some([uv |-> Some([sources |-> None])]),
     Some([uv |-> Some([sources |-> Some(EmptyMap)])]),
     Some([uv |-> Some([sources |-> Some(ProjectName :> SourceUrl(GoodUrl))])])}

\* struct PyProjectToml
PyProjectTomls == [project : Option(Projects), tool : Tools]

WorkspaceSourceMaps ==
    {EmptyMap, ProjectName :> SourceGit(GoodUrl, None, None, None)}

ExtrasSpecifications ==
    {ExtrasNone, ExtrasAll, ExtrasSome(<<"dev">>), ExtrasSome(<<"test">>),
     ExtrasSome(<<"test", "dev">>)}

\* no call of lower_requirement is modelled
LowerIdle ==
    /\ requirement = None
    /\ project_sources = EmptyMap
    /\ table = NoTable
    /\ lowered = None

InitMeta ==
    /\ pc = "manifest"
    /\ pyproject \in {Some(m) : m \in PyProjectTomls}
    /\ extras_specification \in {Some(e) : e \in ExtrasSpecifications}
    /\ workspace_sources \in WorkspaceSourceMaps
    /\ workspace_packages = EmptyMap
    /\ metadata = None
    /\ LowerIdle
    /\ FlattenIdle
    /\ TxtIdle
    /\ SettingsIdle

TryFrom ==
    /\ pc = "manifest"
    /\ metadata' = Some(try_from(Unwrap(pyproject), Unwrap(extras_specification),
                                 workspace_sources, workspace_packages))
    /\ pc' = "extracted"
    /\ UNCHANGED <<pyproject, extras_specification, workspace_sources,
                   workspace_packages, lower_vars, flatten_vars, txt_vars,
                   settings_vars>>

NextMeta == TryFrom

SpecMeta == InitMeta /\ [][NextMeta]_vars

----------------------------------------------------------------------------
(* Calls of flatten_extra, one step of `inner` at a time.  A frame of      *)
(* `inner` holds the requirements still to visit, the extras of the        *)
(* self-reference being expanded, the entries of the map still to compare  *)
(* with the extra being entered, and the list flattened so far.            *)

\* longest list of requirements (the argument, and each group of the map)
MaxGroup == 1
\* frames of `inner` the stack may hold
MaxDepth == 4

\* proj[dev]>=0, proj[test]>=0 and pep517>=1, lowered
FlattenSamples_Dev ==
    UvRequirement(ProjectName, <<"dev">>, None, UvSourceRegistry(">=0", None))
FlattenSamples_Test ==
    UvRequirement(ProjectName, <<"test">>, None, UvSourceRegistry(">=0", None))
FlattenSamples_Other ==
    UvRequirement("pep517", <<>>, None, UvSourceRegistry(">=1", None))
FlattenSamples == {FlattenSamples_Dev, FlattenSamples_Test, FlattenSamples_Other}
FlattenLists == SeqsUpTo(FlattenSamples, MaxGroup)

\* IndexMap<ExtraName, Vec<UvRequirement>>: entries in order, keys distinct
FlattenMaps ==
    {m \in SeqsUpTo(GroupNames \X FlattenLists, Cardinality(GroupNames)) :
        \A i, j \in DOMAIN m : m[i][1] = m[j][1] => i = j}

\* a call of inner(project_name, requirements, extras, seen)
Frame(requirements) ==
    [at |-> "requirements", requirements |-> requirements, extras |-> <<>>,
     extra |-> "", entries |-> <<>>, flattened |-> <<>>]

\* faulty variant: the extra is entered whether it was seen or not
seen_insert_always(seen, extra) ==
    [inserted |-> TRUE, seen |-> seen \cup {extra}]

\* seen.insert(extra.clone())
seen_insert(seen, extra) ==
    [inserted |-> extra \notin seen, seen |-> seen \cup {extra}]

\* what a call of flatten_extra leaves alone
other_than_flatten ==
    <<workspace_sources, workspace_packages, lower_vars, meta_vars, txt_vars,
      settings_vars>>

Top == flatten_stack[Len(flatten_stack)]
SetTop(frame) == [flatten_stack EXCEPT ![Len(flatten_stack)] = frame]

InitFlatten ==
    /\ pc = "flatten"
    /\ flatten_requirements \in FlattenLists
    /\ flatten_map \in FlattenMaps
    /\ flatten_stack = <<Frame(flatten_requirements)>>
    /\ flatten_seen = {}
    /\ flatten_result = None
    /\ workspace_sources = EmptyMap
    /\ workspace_packages = EmptyMap
    /\ LowerIdle
    /\ MetaIdle
    /\ TxtIdle
    /\ SettingsIdle

\* for requirement in requirements: a self-reference has its extras
\* expanded, any other requirement is pushed
ForRequirement ==
    /\ pc = "flatten"
    /\ Top.at = "requirements"
    /\ Top.requirements # <<>>
    /\ LET visited == Head(Top.requirements)
       IN  flatten_stack' =
             IF visited.name = ProjectName
             THEN SetTop([Top EXCEPT !.requirements = Tail(@),
                                     !.at = "extras",
                                     !.extras = visited.extras])
             ELSE SetTop([Top EXCEPT !.requirements = Tail(@),
                                     !.flattened = Append(@, visited)])
    /\ UNCHANGED <<pc, flatten_requirements, flatten_map, flatten_seen,
                   flatten_result, other_than_flatten>>

\* for extra in &requirement.extras: an extra already seen is skipped
ForExtra ==
    /\ pc = "flatten"
    /\ Top.at = "extras"
    /\ IF Top.extras = <<>>
       THEN /\ flatten_stack' = SetTop([Top EXCEPT !.at = "requirements"])
            /\ flatten_seen' = flatten_seen
       ELSE LET insert == seen_insert(flatten_seen, Head(Top.extras))
            IN  /\ flatten_seen' = insert.seen
                /\ flatten_stack' =
                     IF insert.inserted
                     THEN SetTop([Top EXCEPT !.extras = Tail(@),
                                             !.at = "entries",
                                             !.extra = Head(Top.extras),
                                             !.entries = flatten_map])
                     ELSE SetTop([Top EXCEPT !.extras = Tail(@)])
    /\ UNCHANGED <<pc, flatten_requirements, flatten_map, flatten_result,
                   other_than_flatten>>

\* for (other_extra, extra_requirements) in extras: the group of the extra
\* is flattened by a new call of `inner`
ForEntry ==
    /\ pc = "flatten"
    /\ Top.at = "entries"
    /\ \/ /\ Top.entries = <<>>
          /\ flatten_stack' = SetTop([Top EXCEPT !.at = "extras"])
       \/ /\ Top.entries # <<>>
          /\ Head(Top.entries)[1] # Top.extra
          /\ flatten_stack' = SetTop([Top EXCEPT !.entries = Tail(@)])
       \/ /\ Top.entries # <<>>
          /\ Head(Top.entries)[1] = Top.extra
          /\ Len(flatten_stack) < MaxDepth
          /\ flatten_stack' =
                Append(SetTop([Top EXCEPT !.entries = Tail(@)]),
                       Frame(Head(Top.entries)[2]))
    /\ UNCHANGED <<pc, flatten_requirements, flatten_map, flatten_seen,
                   flatten_result, other_than_flatten>>

\* `flattened` is returned: to the caller, which extends its own list with
\* it, or out of flatten_extra
Return ==
    /\ pc = "flatten"
    /\ Top.at = "requirements"
    /\ Top.requirements = <<>>
    /\ IF Len(flatten_stack) = 1
       THEN /\ flatten_result' = Some(Top.flattened)
            /\ flatten_stack' = <<>>
            /\ pc' = "flattened"
       ELSE /\ flatten_stack' =
                 [SubSeq(flatten_stack, 1, Len(flatten_stack) - 1)
                     EXCEPT ![Len(flatten_stack) - 1].flattened =
                                @ \o Top.flattened]
            /\ UNCHANGED <<pc, flatten_result>>
    /\ UNCHANGED <<flatten_requirements, flatten_map, flatten_seen,
                   other_than_flatten>>

NextFlatten == ForRequirement \/ ForExtra \/ ForEntry \/ Return

SpecFlatten == InitFlatten /\ [][NextFlatten]_vars

\* a call that can take a step takes it
FairSpecFlatten == SpecFlatten /\ WF_vars(NextFlatten)

----------------------------------------------------------------------------
(* lower_requirements and UvMetadata::try_from on manifests with several
   entries, valid and invalid *)

\* most dependency texts in one manifest, over `dependencies` and the groups
MaxTexts == 3

\* "tomli" has no version and no source, "???" is no requirement
ManifestTexts ==
    {"pep517>=1", "tomli>=2", "proj[test]>=0", "proj[dev]>=0", "tomli", "???"}

\* the orders of the keys of optional-dependencies
KeyOrders ==
    {k \in SeqsUpTo(GroupNames, Cardinality(GroupNames)) :
        \A i, j \in DOMAIN k : k[i] = k[j] => i = j}

\* the lengths of `dependencies` and of the groups: MaxTexts texts in all at
\* most
TextCounts ==
    {counts \in [1..Cardinality(GroupNames) + 1 -> 0..MaxTexts] :
        counts[1] + counts[2] + counts[3] <= MaxTexts}

\* a manifest with a [project] table and no tool table: `lists[1]` are the
\* dependencies, the others the groups of `keys`
manifest_of(keys, lists) ==
    [project |-> Some([name |-> ProjectName,
                       dependencies |-> Some(lists[1]),
                       optional_dependencies |->
                           Some([i \in DOMAIN keys |-> <<keys[i], lists[i + 1]>>]),
                       dynamic |-> None]),
     tool |-> None]

InitLowerAll ==
    /\ pc = "manifest"
    /\ \E keys \in KeyOrders, counts \in TextCounts :
          /\ \A i \in DOMAIN counts : i > Len(keys) + 1 => counts[i] = 0
          /\ \E dependencies \in [1..counts[1] -> ManifestTexts],
                first \in [1..counts[2] -> ManifestTexts],
                second \in [1..counts[3] -> ManifestTexts] :
                pyproject = Some(manifest_of(keys, <<dependencies, first, second>>))
    /\ extras_specification \in {Some(e) : e \in ExtrasSpecifications}
    /\ workspace_sources = EmptyMap
    /\ workspace_packages = EmptyMap
    /\ metadata = None
    /\ LowerIdle
    /\ FlattenIdle
    /\ TxtIdle
    /\ SettingsIdle

\* lower_requirements on the manifest's lists, as try_from calls it
LowerRequirements ==
    /\ pc = "manifest"
    /\ Unwrap(pyproject).project # None
    /\ lowered' =
          Some(lower_requirements(
                  unwrap_or_default(Unwrap(Unwrap(pyproject).project).dependencies),
                  unwrap_or_default(
                      Unwrap(Unwrap(pyproject).project).optional_dependencies),
                  unwrap_or_default(tool_uv_sources(Unwrap(pyproject))),
                  workspace_sources, workspace_packages))
    /\ pc' = "lowered_all"
    /\ UNCHANGED <<requirement, project_sources, table, pyproject,
                   extras_specification, metadata, workspace_sources,
                   workspace_packages, flatten_vars, txt_vars, settings_vars>>

NextLowerAll == TryFrom \/ LowerRequirements

SpecLowerAll == InitLowerAll /\ [][NextLowerAll]_vars

----------------------------------------------------------------------------
(* Calls of flatten_extra as one step, on longer groups *)

\* longest group of the map
MaxList == 2
\* longest list of requirements handed over that is no group of the map
MaxArg == 1

\* tomli>=2, lowered
FlattenSamples_Second ==
    UvRequirement("tomli", <<>>, None, UvSourceRegistry(">=2", None))
\* self-references without extras and with two extras
FlattenSamples_Bare ==
    UvRequirement(ProjectName, <<>>, None, UvSourceRegistry(">=0", None))
FlattenSamples_DevTest ==
    UvRequirement(ProjectName, <<"dev", "test">>, None,
                  UvSourceRegistry(">=0", None))
FlattenSamples_TestDev ==
    UvRequirement(ProjectName, <<"test", "dev">>, None,
                  UvSourceRegistry(">=0", None))

GroupSamples ==
    {FlattenSamples_Other, FlattenSamples_Second, FlattenSamples_Dev,
     FlattenSamples_Test}
ArgSamples ==
    GroupSamples
        \cup {FlattenSamples_Bare, FlattenSamples_DevTest, FlattenSamples_TestDev}

CallMaps ==
    {m \in SeqsUpTo(GroupNames \X SeqsUpTo(GroupSamples, MaxList),
                    Cardinality(GroupNames)) :
        \A i, j \in DOMAIN m : m[i][1] = m[j][1] => i = j}

InitFlattenCall ==
    /\ pc = "call"
    /\ flatten_map \in CallMaps
    /\ flatten_requirements
          \in SeqsUpTo(ArgSamples, MaxArg)
                \cup {flatten_map[i][2] : i \in DOMAIN flatten_map}
    /\ flatten_stack = <<>>
    /\ flatten_seen = {}
    /\ flatten_result = None
    /\ workspace_sources = EmptyMap
    /\ workspace_packages = EmptyMap
    /\ LowerIdle
    /\ MetaIdle
    /\ TxtIdle
    /\ SettingsIdle

FlattenExtra ==
    /\ pc = "call"
    /\ flatten_result' =
          Some(flatten_extra(ProjectName, flatten_requirements, flatten_map))
    /\ pc' = "returned"
    /\ UNCHANGED <<flatten_requirements, flatten_map, flatten_stack,
                   flatten_seen, other_than_flatten>>

NextFlattenCall == FlattenExtra

SpecFlattenCall == InitFlattenCall /\ [][NextFlattenCall]_vars

----------------------------------------------------------------------------
(* requirements-txt: RequirementsTxtRequirement *)

\* enum RequirementsTxtRequirement
Uv(uv_requirement) == [variant |-> "Uv", requirement |-> uv_requirement]
Unnamed(unnamed) == [variant |-> "Unnamed", requirement |-> unnamed]

\* Pep508Error, with its `message: Pep508ErrorSource` and the parser it is from
Pep508Error(message, parser) == [message |-> message, parser |-> parser]
Pep508ErrorSources == {"String", "UrlError", "UnsupportedRequirement"}

\* pep508_rs::UnnamedRequirement
UnnamedRequirements ==
    [url : {VerbatimUrlFromStr(GoodUrl).value,
            VerbatimUrlFromStr("https://example.org/other").value},
     extras : SeqsUpTo(ExtraNames, MaxExtras),
     marker : Option(MarkerSamples)]

\* what Requirement::parse may return
NamedParses ==
    {Ok(r) : r \in Requirements}
        \cup {Err(Pep508Error(m, "Requirement")) : m \in Pep508ErrorSources}

\* what UnnamedRequirement::parse may return
UnnamedParses ==
    {Ok(u) : u \in UnnamedRequirements}
        \cup {Err(Pep508Error(m, "UnnamedRequirement")) :
                m \in {"String", "UrlError"}}

\* Err(err) with err.message an UnsupportedRequirement
parse_retries(named) ==
    IsErr(named) /\ named.error.message = "UnsupportedRequirement"

\* RequirementsTxtRequirement::parse, given what the two parsers make of the
\* input
parse(named, unnamed) ==
    IF IsOk(named)
    THEN LET uv_requirement == from_requirement(named.value)
         IN  IF IsOk(uv_requirement)
             THEN Ok(Uv(uv_requirement.value))
             ELSE uv_requirement
    ELSE IF parse_retries(named)
    THEN IF IsOk(unnamed) THEN Ok(Unnamed(unnamed.value)) ELSE unnamed
    ELSE named

\* no call of evaluate_markers is modelled
MarkersIdle ==
    /\ txt_requirement = None
    /\ environment = None
    /\ enabled_extras = <<>>
    /\ evaluation = None

InitParse ==
    /\ pc = "text"
    /\ named_parse \in {Some(n) : n \in NamedParses}
    /\ unnamed_parse \in {Some(u) : u \in UnnamedParses}
    /\ txt_parsed = None
    /\ MarkersIdle
    /\ workspace_sources = EmptyMap
    /\ workspace_packages = EmptyMap
    /\ LowerIdle
    /\ MetaIdle
    /\ FlattenIdle
    /\ SettingsIdle

Parse ==
    /\ pc = "text"
    /\ txt_parsed' = Some(parse(Unwrap(named_parse), Unwrap(unnamed_parse)))
    /\ pc' = "parsed"
    /\ UNCHANGED <<named_parse, unnamed_parse, txt_requirement, environment,
                   enabled_extras, evaluation, workspace_sources,
                   workspace_packages, lower_vars, meta_vars, flatten_vars,
                   settings_vars>>

NextParse == Parse

SpecParse == InitParse /\ [][NextParse]_vars

----------------------------------------------------------------------------
(* pep508-rs and requirements-txt: evaluate_markers *)

\* MarkerTree: the samples of the requirements, and a term on an extra
MarkerTrees == MarkerSamples \cup {"extra == 'test'"}

\* MarkerEnvironment: the python version, as 100 * major + minor
PythonVersions == {307, 308, 312}
MarkerEnvironments == [python_version : PythonVersions]

\* MarkerTree::evaluate
marker_evaluate(marker, env, enabled) ==
    CASE marker = "python_version >= '3.8'" -> env.python_version >= 308
      [] marker = "extra == 'test'" ->
            \E i \in DOMAIN enabled : enabled[i] = "test"
      [] OTHER -> FALSE

\* faulty variant: a requirement without marker applies nowhere
evaluate_markers_needs_marker(uv_requirement, env, enabled) ==
    IF uv_requirement.marker # None
    THEN marker_evaluate(Unwrap(uv_requirement.marker), env, enabled)
    ELSE FALSE

\* UvRequirement::evaluate_markers
evaluate_markers(uv_requirement, env, enabled) ==
    IF uv_requirement.marker # None
    THEN marker_evaluate(Unwrap(uv_requirement.marker), env, enabled)
    ELSE TRUE

\* UnnamedRequirement::evaluate_markers
unnamed_evaluate_markers(unnamed, env, enabled) ==
    IF unnamed.marker # None
    THEN marker_evaluate(Unwrap(unnamed.marker), env, enabled)
    ELSE TRUE

\* RequirementsTxtRequirement::evaluate_markers
txt_evaluate_markers(txt, env, enabled) ==
    IF txt.variant = "Uv"
    THEN evaluate_markers(txt.requirement, env, enabled)
    ELSE unnamed_evaluate_markers(txt.requirement, env, enabled)

UvRequirements ==
    [name : RequirementNames,
     extras : SeqsUpTo(ExtraNames, MaxExtras),
     marker : Option(MarkerTrees),
     source : {UvSourceRegistry(VersionSpecifiersEmpty, None),
               UvSourceUrl(VerbatimUrlFromStr(GoodUrl).value)}]

TxtRequirements ==
    {Uv(r) : r \in UvRequirements}
        \cup {Unnamed(u) :
                u \in [url : {VerbatimUrlFromStr(GoodUrl).value},
                       extras : SeqsUpTo(ExtraNames, MaxExtras),
                       marker : Option(MarkerTrees)]}

InitMarkers ==
    /\ pc = "requirement"
    /\ txt_requirement \in {Some(t) : t \in TxtRequirements}
    /\ environment \in {Some(e) : e \in MarkerEnvironments}
    /\ enabled_extras \in SeqsUpTo(ExtraNames, MaxExtras)
    /\ evaluation = None
    /\ named_parse = None
    /\ unnamed_parse = None
    /\ txt_parsed = None
    /\ workspace_sources = EmptyMap
    /\ workspace_packages = EmptyMap
    /\ LowerIdle
    /\ MetaIdle
    /\ FlattenIdle
    /\ SettingsIdle

\* what a call of evaluate_markers leaves alone
other_than_evaluation ==
    <<txt_requirement, environment, enabled_extras, named_parse,
      unnamed_parse, txt_parsed, workspace_sources, workspace_packages,
      lower_vars, meta_vars, flatten_vars, settings_vars>>

\* the call on the RequirementsTxtRequirement
EvaluateMarkers ==
    /\ pc = "requirement"
    /\ evaluation' = Some(txt_evaluate_markers(Unwrap(txt_requirement),
                                               Unwrap(environment),
                                               enabled_extras))
    /\ pc' = "evaluated"
    /\ UNCHANGED other_than_evaluation

\* the call on the UvRequirement itself
EvaluateUvMarkers ==
    /\ pc = "requirement"
    /\ Unwrap(txt_requirement).variant = "Uv"
    /\ evaluation' = Some(evaluate_markers(Unwrap(txt_requirement).requirement,
                                           Unwrap(environment),
                                           enabled_extras))
    /\ pc' = "evaluated_uv"
    /\ UNCHANGED other_than_evaluation

NextMarkers == EvaluateMarkers \/ EvaluateUvMarkers

SpecMarkers == InitMarkers /\ [][NextMarkers]_vars

----------------------------------------------------------------------------
(* uv: the settings of the pip commands, resolved from the command line    *)
(* and the workspace configuration.  Of the shared options three are       *)
(* modelled: `python` (a value), `offline` (a pair of flags) and           *)
(* `no_index` (one flag).                                                  *)

\* the commands: all take --python and --offline/--no-offline, all but
\* `uninstall` take --no-index
PipCommands == {"compile", "sync", "install", "venv", "uninstall"}
PythonSamples == {"3.11", "3.12"}

\* uv_workspace::PipOptions
PipOptions(python, offline, no_index) ==
    [python |-> python, offline |-> offline, no_index |-> no_index]
\* PipOptions::default()
PipOptionsDefault == PipOptions(None, None, None)

\* what clap hands over: a flag is a bool, --offline and --no-offline
\* exclude each other
PipArgs ==
    {a \in [python : Option(PythonSamples), offline : BOOLEAN,
            no_offline : BOOLEAN, no_index : BOOLEAN] :
        ~(a.offline /\ a.no_offline)}

\* Option<Workspace>, with its options.pip
Workspaces ==
    {None, Some([pip |-> None])}
        \cup {Some([pip |-> Some(o)]) :
                o \in [python : Option({"3.12"}), offline : Option(BOOLEAN),
                       no_index : Option(BOOLEAN)]}

\* fn flag(yes, no)
flag(yes, no) ==
    CASE yes /\ ~no -> Some(TRUE)
      [] ~yes /\ no -> Some(FALSE)
      [] ~yes /\ ~no -> None
      [] OTHER -> Panic("Clap should make this impossible")

\* Option::or
option_or(first, second) == IF first # None THEN first ELSE second
\* Option<bool>::unwrap_or_default
unwrap_or_false(option) == IF option = None THEN FALSE ELSE Unwrap(option)

\* workspace.and_then(|workspace| workspace.options.pip).unwrap_or_default()
workspace_pip(workspace) ==
    IF workspace = None THEN PipOptionsDefault
    ELSE IF Unwrap(workspace).pip = None THEN PipOptionsDefault
    ELSE Unwrap(Unwrap(workspace).pip)

\* the PipOptions a command's resolve builds from its arguments
cli_options(command, args) ==
    PipOptions(args.python,
               flag(args.offline, args.no_offline),
               IF command = "uninstall" THEN PipOptionsDefault.no_index
               ELSE Some(args.no_index))

\* the fields of PipSharedSettings, given the two PipOptions
combine_options(args, configured) ==
    [python |-> option_or(args.python, configured.python),
     offline |-> unwrap_or_false(option_or(args.offline, configured.offline)),
     no_index |-> unwrap_or_false(option_or(args.no_index, configured.no_index))]

\* PipSharedSettings::combine
combine(args, workspace) == combine_options(args, workspace_pip(workspace))

\* Pip*Settings::resolve, VenvSettings::resolve: the shared settings
resolve(command, args, workspace) ==
    combine(cli_options(command, args), workspace)

InitSettings ==
    /\ pc = "args"
    /\ pip_command \in PipCommands
    /\ pip_args \in {Some(a) : a \in PipArgs}
    /\ pip_command = "uninstall" => ~Unwrap(pip_args).no_index
    /\ pip_workspace \in Workspaces
    /\ pip_settings = None
    /\ workspace_sources = EmptyMap
    /\ workspace_packages = EmptyMap
    /\ LowerIdle
    /\ MetaIdle
    /\ FlattenIdle
    /\ TxtIdle

Resolve ==
    /\ pc = "args"
    /\ pip_settings' = Some(resolve(pip_command, Unwrap(pip_args), pip_workspace))
    /\ pc' = "resolved"
    /\ UNCHANGED <<pip_command, pip_args, pip_workspace, workspace_sources,
                   workspace_packages, lower_vars, meta_vars, flatten_vars,
                   txt_vars>>

NextSettings == Resolve

SpecSettings == InitSettings /\ [][NextSettings]_vars

----------------------------------------------------------------------------
(* Properties.  What a property says about the inputs is stated on the     *)
(* state, independently of the operators above.                            *)

Lowered == pc = "lowered"
Result == Unwrap(lowered)
Name == requirement.name
InProject == Name \in DOMAIN project_sources
InWorkspace == Name \in DOMAIN workspace_sources
IsMember == Name \in DOMAIN workspace_packages
HasOverride == InProject \/ InWorkspace
\* the override the lookup is to resolve: the project's, else the workspace's
Override == IF InProject THEN project_sources[Name] ELSE workspace_sources[Name]
OverrideIs(variant) == HasOverride /\ Override.variant = variant
OverrideIsWorkspaceTrue == OverrideIs("Workspace") /\ Override.workspace
RefsSet(source) ==
    Cardinality({k \in {"rev", "tag", "branch"} : source[k] # None})
Without(map, name) == [n \in DOMAIN map \ {name} |-> map[n]]
Only(map, name) == [n \in {name} |-> map[n]]

\* C1: a requirement naming a workspace member is an error unless the
\* resolved override is Workspace with workspace = true
C1_WorkspaceMemberRejected ==
    (Lowered /\ IsMember /\ ~OverrideIsWorkspaceTrue) => IsErr(Result)

C1_Witness ==
    /\ Lowered /\ IsMember
    /\ OverrideIs("Workspace") /\ ~Override.workspace
    /\ requirement.version_or_url # None
    /\ IsErr(Result) /\ Result.error.type = "WorkspacePackage"

\* C2: a requirement with neither version constraint nor URL and no override
\* in either map is an error, never a UvRequirement
C2_BareNameRejected ==
    (Lowered /\ requirement.version_or_url = None /\ ~HasOverride)
        => IsErr(Result)

C2_Witness ==
    /\ Lowered /\ requirement.version_or_url = None /\ ~HasOverride
    /\ ~IsMember
    /\ IsErr(Result) /\ Result.error.type = "MissingVersionConstraint"

\* C3: a resolved Git override with two or more of rev, tag, branch set is an
\* error; with at most one set the call does not fail for that reason
C3_GitRefConflict ==
    (Lowered /\ OverrideIs("Git")) =>
        /\ RefsSet(Override) >= 2 => IsErr(Result)
        /\ RefsSet(Override) <= 1 =>
              ~(IsErr(Result) /\ Result.error.type = "GitRefConflict")
        /\ (RefsSet(Override) <= 1 /\ ~IsMember /\ Override.git = GoodUrl)
              => IsOk(Result)

C3_Witness ==
    /\ Lowered /\ OverrideIs("Git") /\ ~IsMember
    /\ Override.rev # None /\ Override.tag # None /\ Override.branch = None
    /\ IsErr(Result) /\ Result.error.type = "GitRefConflict"

\* C4: a workspace member whose resolved override is Workspace with
\* workspace = true is lowered to a UvRequirement, whatever the member's path
C4_WorkspaceMemberLowered ==
    (Lowered /\ IsMember /\ OverrideIsWorkspaceTrue) => IsOk(Result)

\* C5: a resolved Path or Registry override (name no workspace member) gives
\* an error value saying the source kind is not yet supported
C5_PathRegistryUnsupportedError ==
    (Lowered /\ ~IsMember /\ (OverrideIs("Path") \/ OverrideIs("Registry")))
        => IsErr(Result)

\* C6: a resolved CatchAll override is always an error
C6_CatchAllRejected ==
    (Lowered /\ OverrideIs("CatchAll")) => IsErr(Result)

C6_Witness ==
    /\ Lowered /\ OverrideIs("CatchAll") /\ ~IsMember
    /\ requirement.version_or_url # None
    /\ IsErr(Result) /\ Result.error.type = "CatchAll"
    /\ Result.error.name = Name

\* the keys of the recognized shapes of an override table
ShapeKeys ==
    {{"git", "rev", "tag", "branch"}, {"url"}, {"path", "editable"},
     {"index"}, {"workspace", "editable"}}
FromManifest == table # NoTable
TableName == table[1]
Keys == DOMAIN table[2]
\* recognized keys only, of more than one shape
MixedShapes ==
    /\ Keys \subseteq UNION ShapeKeys
    /\ \A K \in ShapeKeys : ~(Keys \subseteq K)

\* C7: an override table whose keys belong to more than one recognized shape
\* is rejected when the manifest is read and lowered, never lowered like one
\* of the single shapes
C7_MixedShapesRejected ==
    (FromManifest /\ MixedShapes /\ TableName = Name /\ pc \in {"rejected", "lowered"})
        => IsErr(Result)

\* C8: an override table whose only key is path (optionally with editable)
\* is recognized as the Path shape
C8_PathRecognized ==
    (FromManifest /\ "path" \in Keys /\ Keys \subseteq {"path", "editable"}
        /\ pc # "manifest")
        => /\ pc # "rejected"
           /\ project_sources[TableName].variant = "Path"

\* C9: the project map has precedence: with an entry in both maps the outcome
\* is that with the workspace entry removed, the workspace entry is used only
\* when the project map has none, and with neither there is no override
C9_ProjectPrecedence ==
    Lowered =>
        /\ (InProject /\ InWorkspace) =>
              Result = lower_requirement(requirement, project_sources,
                           Without(workspace_sources, Name), workspace_packages)
        /\ InProject =>
              Result = lower_requirement(requirement, Only(project_sources, Name),
                           EmptyMap, workspace_packages)
        /\ (~InProject /\ InWorkspace) =>
              Result = lower_requirement(requirement, Only(workspace_sources, Name),
                           EmptyMap, workspace_packages)
        /\ ~HasOverride =>
              Result = lower_requirement(requirement, EmptyMap, EmptyMap,
                           workspace_packages)

C9_Witness ==
    /\ Lowered /\ InProject /\ InWorkspace /\ ~IsMember
    /\ project_sources[Name].variant = "Url"
    /\ project_sources[Name].url = GoodUrl
    /\ workspace_sources[Name].variant = "CatchAll"
    /\ IsOk(Result) /\ Result.value.source.variant = "Url"

\* C10: a versioned requirement with no override and a name that is no
\* workspace member is lowered to Registry with exactly that version and no
\* index; name, extras and marker are those of the parsed requirement
C10_RegistryFromVersion ==
    (Lowered /\ ~HasOverride /\ ~IsMember
        /\ requirement.version_or_url # None
        /\ Unwrap(requirement.version_or_url).kind = "VersionSpecifier")
        => /\ IsOk(Result)
           /\ Result.value.name = requirement.name
           /\ Result.value.extras = requirement.extras
           /\ Result.value.marker = requirement.marker
           /\ Result.value.source =
                [variant |-> "Registry",
                 version |-> Unwrap(requirement.version_or_url).version,
                 index |-> None]

C10_Witness ==
    /\ Lowered /\ ~HasOverride /\ ~IsMember
    /\ requirement.version_or_url = Some(VersionSpecifier(">=1,<2"))
    /\ requirement.extras = <<"test">>
    /\ requirement.marker # None
    /\ IsOk(Result) /\ Result.value.source.variant = "Registry"
    /\ Result.value.source.version = ">=1,<2"

\* the GitVersion a Git override with at most one of rev, tag, branch names
SingleRef(source) ==
    IF source.rev # None THEN Some([kind |-> "Rev", value |-> source.rev[1]])
    ELSE IF source.tag # None THEN Some([kind |-> "Tag", value |-> source.tag[1]])
    ELSE IF source.branch # None
    THEN Some([kind |-> "Branch", value |-> source.branch[1]])
    ELSE None

\* C11: a resolved Git override with at most one of rev, tag, branch (name no
\* workspace member, git URL valid) is lowered to a Git source with the
\* override's URL and the version None, Rev, Tag or Branch of the key set;
\* name, extras and marker are copied from the requirement
C11_GitLowered ==
    (Lowered /\ OverrideIs("Git") /\ RefsSet(Override) <= 1 /\ ~IsMember
        /\ Override.git = GoodUrl)
        => /\ IsOk(Result)
           /\ Result.value.name = requirement.name
           /\ Result.value.extras = requirement.extras
           /\ Result.value.marker = requirement.marker
           /\ Result.value.source.variant = "Git"
           /\ Result.value.source.git.url = Override.git
           /\ Result.value.source.git.given = Some(Override.git)
           /\ Result.value.source.version = SingleRef(Override)

C11_Witness ==
    /\ Lowered /\ OverrideIs("Git") /\ ~IsMember
    /\ Override.git = GoodUrl
    /\ Override.rev = None /\ Override.tag = Some("v1") /\ Override.branch = None
    /\ requirement.extras = <<"test">> /\ requirement.marker # None
    /\ IsOk(Result)
    /\ Result.value.source.version = Some([kind |-> "Tag", value |-> "v1"])

\* C19: a requirement with a direct URL, no override in either map and a name
\* that is no workspace member ends in a UvRequirement or in an error value
C19_UrlRequirementReturns ==
    (Lowered /\ ~HasOverride /\ ~IsMember
        /\ requirement.version_or_url # None
        /\ Unwrap(requirement.version_or_url).kind = "Url")
        => (IsOk(Result) \/ IsErr(Result))

----------------------------------------------------------------------------
(* Properties of UvMetadata::try_from *)

Extracted == pc = "extracted"
Extraction == Unwrap(metadata)
Manifest == Unwrap(pyproject)
Requested == Unwrap(extras_specification)
HasProject == Manifest.project # None
TheProject == Unwrap(Manifest.project)
\* the manifest has a tool.uv.sources table
HasSourcesTable ==
    /\ Manifest.tool # None
    /\ Manifest.tool[1].uv # None
    /\ Manifest.tool[1].uv[1].sources # None
\* an override source exists: a sources table or a workspace override
OverridesExist == HasSourcesTable \/ workspace_sources # EmptyMap
DynamicHas(field) ==
    /\ TheProject.dynamic # None
    /\ \E i \in DOMAIN TheProject.dynamic[1] : TheProject.dynamic[1][i] = field
IsMissingEntry(result, entry) ==
    /\ IsErr(result)
    /\ result.error.type = "MissingEntry"
    /\ result.error.entry = entry
\* the gate's outcome: an error if overrides exist, else "unknown"
Gate(entry) ==
    IF OverridesExist THEN IsMissingEntry(Extraction, entry)
    ELSE Extraction = Ok(None)
ExtraRequested(extra) ==
    \/ Requested.kind = "All"
    \/ /\ Requested.kind = "Some"
       /\ \E i \in DOMAIN Requested.names : Requested.names[i] = extra
SomeExtraRequested == Requested.kind # "None"
GroupKeys ==
    IF TheProject.optional_dependencies = None THEN {}
    ELSE {TheProject.optional_dependencies[1][i][1] :
            i \in DOMAIN TheProject.optional_dependencies[1]}

\* C12: with "dependencies" dynamic, try_from returns Ok(None) when no override
\* source exists and a MissingEntry error when one exists, whatever extras are
\* requested and whatever the dependencies are
C12_DynamicDependencies ==
    (Extracted /\ HasProject /\ DynamicHas("dependencies"))
        => Gate("[project.dependencies]")

C12_Witness ==
    /\ Extracted /\ HasProject /\ DynamicHas("dependencies")
    /\ TheProject.dependencies = Some(<<"proj[test]">>)
    /\ HasSourcesTable /\ workspace_sources = EmptyMap
    /\ Requested.kind = "All"
    /\ IsMissingEntry(Extraction, "[project.dependencies]")

\* C13: without a [project] table, try_from returns a MissingEntry error if an
\* override source exists (project-level or workspace-level), else Ok(None)
C13_NoProjectTable ==
    (Extracted /\ ~HasProject) => Gate("[project]")

C13_Witness ==
    /\ Extracted /\ ~HasProject
    /\ ~HasSourcesTable /\ workspace_sources # EmptyMap
    /\ IsMissingEntry(Extraction, "[project]")

\* C14: with "optional-dependencies" dynamic and "dependencies" not: if an
\* extra is requested the outcome is the MissingEntry error or Ok(None); if
\* none is requested the marking does not block the extraction, which goes on
\* to lower the static dependencies
C14_DynamicOptionalDependencies ==
    (Extracted /\ HasProject /\ DynamicHas("optional-dependencies")
        /\ ~DynamicHas("dependencies"))
        => IF SomeExtraRequested
           THEN Gate("[project.optional-dependencies]")
           ELSE /\ Extraction # Ok(None)
                /\ ~(IsErr(Extraction) /\ Extraction.error.type = "MissingEntry")
                /\ Extraction =
                     try_from([Manifest EXCEPT !.project[1].dynamic = None],
                              Requested, workspace_sources, workspace_packages)

C14_Witness ==
    /\ Extracted /\ HasProject /\ DynamicHas("optional-dependencies")
    /\ ~DynamicHas("dependencies") /\ ~SomeExtraRequested
    /\ OverridesExist
    /\ TheProject.dependencies = Some(<<"pep517>=1">>)
    /\ IsOk(Extraction) /\ Extraction.value # None
    /\ Len(Extraction.value[1].requirements) = 1

\* C15: in Some(metadata), used_extras is the set of requested extras that are
\* keys of optional-dependencies; a requested extra that is no key changes
\* nothing
C15_UsedExtras ==
    (Extracted /\ IsOk(Extraction) /\ Extraction.value # None)
        => /\ Extraction.value[1].used_extras
                = {e \in GroupKeys : ExtraRequested(e)}
           /\ Requested.kind = "Some" =>
                \A k \in DOMAIN Requested.names :
                    Requested.names[k] \notin GroupKeys =>
                        Extraction =
                            try_from(Manifest,
                                [kind |-> "Some",
                                 names |-> SubSeq(Requested.names, 1, k - 1)
                                    \o SubSeq(Requested.names, k + 1,
                                              Len(Requested.names))],
                                workspace_sources, workspace_packages)

C15_Witness ==
    /\ Extracted /\ IsOk(Extraction) /\ Extraction.value # None
    /\ Requested = [kind |-> "Some", names |-> <<"test", "dev">>]
    /\ GroupKeys = {"dev"}
    /\ TheProject.optional_dependencies[1][1][2] = <<"pep517>=1">>
    /\ Extraction.value[1].used_extras = {"dev"}
    /\ Len(Extraction.value[1].requirements) >= 1

\* C16: project proj with dev = ["proj[test]"], test = ["pep517>=1"], no
\* overrides, dev requested: try_from returns Some(metadata) whose requirements
\* hold the requirements of test in place of the self-reference
C16_SelfReferenceExtracted ==
    (Extracted /\ HasProject /\ ~OverridesExist
        /\ TheProject.dynamic = None
        /\ TheProject.dependencies = Some(<<>>)
        /\ TheProject.optional_dependencies
             = Some(<< <<"dev", <<"proj[test]">> >>,
                       <<"test", <<"pep517>=1">> >> >>)
        /\ Requested = [kind |-> "Some", names |-> <<"dev">>])
        => /\ IsOk(Extraction) /\ Extraction.value # None
           /\ Extraction.value[1].requirements
                = << [name |-> "pep517", extras |-> <<>>, marker |-> None,
                      source |-> [variant |-> "Registry", version |-> ">=1",
                                  index |-> None]] >>

----------------------------------------------------------------------------
(* Properties of flatten_extra *)

Flattened == pc = "flattened" /\ flatten_result # None

\* the steps of `inner` yield what the function flatten_extra yields
StepsAgree ==
    Flattened =>
        Unwrap(flatten_result)
            = flatten_extra(ProjectName, flatten_requirements, flatten_map)

\* the stack never needs more frames than it may hold
DepthSuffices == Len(flatten_stack) < MaxDepth

\* C17: flatten_extra terminates and returns a list, for every map, also when
\* groups refer to each other or to themselves through the project
C17_FlattenTerminates == <>Flattened

C17_Witness ==
    /\ Flattened
    /\ flatten_requirements = <<FlattenSamples_Dev>>
    /\ flatten_map = << <<"dev", <<FlattenSamples_Test>> >>,
                        <<"test", <<FlattenSamples_Dev>> >> >>
    /\ flatten_seen = {"dev", "test"}
    /\ Unwrap(flatten_result) = <<>>

----------------------------------------------------------------------------
(* Properties of RequirementsTxtRequirement *)

TxtParsed == pc = "parsed"
Named == Unwrap(named_parse)
UnnamedRetry == Unwrap(unnamed_parse)
ParseResult == Unwrap(txt_parsed)
NamedUnsupported ==
    IsErr(Named) /\ Named.error.message = "UnsupportedRequirement"

\* C18: parse tries the named grammar first; it retries with the unnamed
\* grammar exactly when the named parse failed with UnsupportedRequirement,
\* giving Unnamed or the error of the retry; any other error of the named
\* parse is returned unchanged; a successful named parse yields the Uv variant
C18_ParseFallback ==
    TxtParsed =>
        /\ IsOk(Named) => (IsOk(ParseResult) /\ ParseResult.value.variant = "Uv")
        /\ NamedUnsupported =>
              ParseResult = IF IsOk(UnnamedRetry)
                            THEN Ok(Unnamed(UnnamedRetry.value))
                            ELSE UnnamedRetry
        /\ (IsErr(Named) /\ ~NamedUnsupported) => ParseResult = Named

Evaluated == pc \in {"evaluated", "evaluated_uv"}
Evaluation == Unwrap(evaluation)
NoMarker == Unwrap(txt_requirement).requirement.marker = None

\* C20: evaluate_markers on a requirement without marker is true in every
\* environment and for every list of enabled extras, on the UvRequirement and
\* through RequirementsTxtRequirement for both variants
C20_NoMarkerApplies == (Evaluated /\ NoMarker) => Evaluation = TRUE

C20_Witness ==
    /\ pc = "evaluated_uv" /\ NoMarker
    /\ Unwrap(environment).python_version = 307
    /\ enabled_extras = <<>>
    /\ Evaluation = TRUE

----------------------------------------------------------------------------
(* Further properties of lower_requirement *)

IsWorkspacePolicyError(result) ==
    IsErr(result) /\ result.error.type = "WorkspacePackage"
\* the requirement with its version constraint or URL replaced
WithVersionOrUrl(version_or_url) ==
    [requirement EXCEPT !.version_or_url = version_or_url]
LoweredAs(req) ==
    lower_requirement(req, project_sources, workspace_sources,
                      workspace_packages)

\* C26: for a workspace member without a Workspace workspace = true override
\* the error is the workspace policy error, also when the requirement has no
\* version constraint, the Git override has conflicting references, or the
\* override is CatchAll, Path or Registry
C26_MemberCheckFirst ==
    (Lowered /\ IsMember /\ ~OverrideIsWorkspaceTrue
        /\ \/ requirement.version_or_url = None
           \/ OverrideIs("Git") /\ RefsSet(Override) >= 2
           \/ OverrideIs("CatchAll")
           \/ OverrideIs("Path")
           \/ OverrideIs("Registry"))
        => /\ IsWorkspacePolicyError(Result)
           /\ Result.error.name = Name

C26_Witness ==
    /\ Lowered /\ IsMember
    /\ OverrideIs("Git") /\ RefsSet(Override) >= 2
    /\ requirement.version_or_url = None
    /\ IsWorkspacePolicyError(Result)

\* C27: with a resolved Git or Url override the result does not depend on the
\* requirement's own version constraint or URL: the versioned and the URL form
\* lower as the bare name does, and the bare name is accepted
C27_OverrideDiscardsVersion ==
    (Lowered /\ (OverrideIs("Git") \/ OverrideIs("Url"))) =>
        /\ Result = LoweredAs(WithVersionOrUrl(None))
        /\ (~IsMember /\ OverrideIs("Url") /\ Override.url = GoodUrl)
              => /\ IsOk(Result)
                 /\ Result.value.source.variant = "Url"
                 /\ Result.value.source.url.url = Override.url
        /\ (~IsMember /\ OverrideIs("Git") /\ Override.git = GoodUrl
              /\ RefsSet(Override) <= 1)
              => /\ IsOk(Result)
                 /\ Result.value.source.variant = "Git"

C27_Witness ==
    /\ Lowered /\ OverrideIs("Url") /\ Override.url = GoodUrl /\ ~IsMember
    /\ requirement.version_or_url = None
    /\ IsOk(Result)
    /\ Result.value.source.variant = "Url"

----------------------------------------------------------------------------
(* Further properties of UvMetadata::try_from *)

\* the sources table of the manifest, if it has one
SourcesTable == Manifest.tool[1].uv[1].sources[1]
\* one of the gates applies: no [project] table, or dynamic dependencies
Gated == ~HasProject \/ DynamicHas("dependencies")
GateEntry == IF HasProject THEN "[project.dependencies]" ELSE "[project]"

\* C28: override sources exist when the manifest has a sources table, even an
\* empty one, or the workspace override map is non-empty: with an empty table
\* and no [project] table (or dynamic dependencies) the result is a
\* MissingEntry error; with an empty workspace map and no table it is Ok(None)
C28_EmptyTableCounts ==
    (Extracted /\ Gated) =>
        /\ (HasSourcesTable /\ SourcesTable = EmptyMap)
              => IsMissingEntry(Extraction, GateEntry)
        /\ workspace_sources # EmptyMap => IsMissingEntry(Extraction, GateEntry)
        /\ (~HasSourcesTable /\ workspace_sources = EmptyMap)
              => Extraction = Ok(None)

C28_Witness ==
    /\ Extracted /\ ~HasProject
    /\ HasSourcesTable /\ SourcesTable = EmptyMap
    /\ workspace_sources = EmptyMap
    /\ IsMissingEntry(Extraction, "[project]")

----------------------------------------------------------------------------
(* Properties of the pip settings *)

Resolved == pc = "resolved"
Settings == Unwrap(pip_settings)
Args == Unwrap(pip_args)
\* the workspace configures the option
Configures(option) ==
    /\ pip_workspace # None
    /\ pip_workspace[1].pip # None
    /\ pip_workspace[1].pip[1][option] # None
Configured(option) == pip_workspace[1].pip[1][option][1]
\* the command line's value if one was given, else the configured value if
\* there is one, else the default
Precedence(given, value, option, default) ==
    IF given THEN value
    ELSE IF Configures(option) THEN Configured(option)
    ELSE default

\* C30: every shared option resolves to the value given on the command line,
\* else to the value configured in the workspace's pip options, else to the
\* default; a configured no_index takes effect when --no-index is not passed
C30_CliThenWorkspaceThenDefault ==
    Resolved =>
        /\ Settings.python
             = IF Args.python # None THEN Args.python
               ELSE IF Configures("python") THEN Some(Configured("python"))
               ELSE None
        /\ Settings.offline
             = Precedence(Args.offline \/ Args.no_offline, Args.offline,
                          "offline", FALSE)
        /\ Settings.no_index = Precedence(Args.no_index, TRUE, "no_index", FALSE)

----------------------------------------------------------------------------
(* Properties of flatten_extra as a function *)

Returned == pc = "returned"
FlatResult == Unwrap(flatten_result)
IsSelfReference(r) == r.name = ProjectName
HasGroup(extra) == \E i \in DOMAIN flatten_map : flatten_map[i][1] = extra
Group(extra) ==
    flatten_map[CHOOSE i \in DOMAIN flatten_map : flatten_map[i][1] = extra][2]
Occurrences(list, r) == Cardinality({i \in DOMAIN list : list[i] = r})

\* The depth-first order, by a list of what is still to do: requirements to
\* emit or to replace, and extras to enter.  A requirement of another name is
\* emitted; a self-reference is replaced by the extras it lists, in order; an
\* extra not yet visited is replaced by the requirements of its group.
ToDoRequirements(list) == [i \in DOMAIN list |-> [requirement |-> <<list[i]>>, extra |-> ""]]
ToDoExtras(names) == [i \in DOMAIN names |-> [requirement |-> <<>>, extra |-> names[i]]]
RECURSIVE DepthFirst(_, _, _)
DepthFirst(todo, visited, emitted) ==
    IF todo = <<>> THEN emitted
    ELSE LET item == Head(todo)
         IN  IF item.requirement # <<>>
             THEN IF IsSelfReference(item.requirement[1])
                  THEN DepthFirst(ToDoExtras(item.requirement[1].extras)
                                     \o Tail(todo), visited, emitted)
                  ELSE DepthFirst(Tail(todo), visited,
                                  Append(emitted, item.requirement[1]))
             ELSE IF item.extra \in visited
                  THEN DepthFirst(Tail(todo), visited, emitted)
                  ELSE DepthFirst(
                          (IF HasGroup(item.extra)
                           THEN ToDoRequirements(Group(item.extra))
                           ELSE <<>>) \o Tail(todo),
                          visited \cup {item.extra}, emitted)

\* C21: flatten_extra keeps the requirements of other names unchanged, in
\* first-seen depth-first order, a self-reference replaced at its position by
\* the flattening of its extras in the order listed; nothing is deduplicated
C21_DepthFirstOrder ==
    Returned =>
        /\ FlatResult = DepthFirst(ToDoRequirements(flatten_requirements), {}, <<>>)
        /\ (\A i \in DOMAIN flatten_requirements :
                ~IsSelfReference(flatten_requirements[i]))
              => FlatResult = flatten_requirements

C21_Witness ==
    /\ Returned
    /\ flatten_requirements = <<FlattenSamples_TestDev>>
    /\ flatten_map = << <<"dev", <<FlattenSamples_Other, FlattenSamples_Other>> >>,
                        <<"test", <<FlattenSamples_Second, FlattenSamples_Other>> >> >>
    /\ FlatResult = <<FlattenSamples_Second, FlattenSamples_Other,
                      FlattenSamples_Other, FlattenSamples_Other>>

\* C22: in one call no group is expanded more than once, the group whose
\* flattening was asked for included: when the requirements are a group of the
\* map, no requirement is emitted more often than it occurs in the groups
C22_GroupExpandedOnce ==
    (Returned /\ \E i \in DOMAIN flatten_map :
                    flatten_requirements = flatten_map[i][2])
        => \A r \in GroupSamples :
              Occurrences(FlatResult, r)
                 <= Cardinality({<<i, j>> \in (DOMAIN flatten_map) \X (1..MaxList + 1) :
                        /\ j \in DOMAIN flatten_map[i][2]
                        /\ flatten_map[i][2][j] = r})

\* C25: the list flatten_extra returns holds no requirement of the project's
\* name: self-references without extras, to an extra that is no key, and to a
\* visited extra are removed as well
C25_NoSelfReferenceLeft ==
    Returned => \A i \in DOMAIN FlatResult : ~IsSelfReference(FlatResult[i])

C25_Witness ==
    /\ Returned
    /\ flatten_requirements = <<FlattenSamples_DevTest>>
    /\ flatten_map = << <<"dev", <<FlattenSamples_Dev, FlattenSamples_Other>> >> >>
    /\ FlatResult = <<FlattenSamples_Other>>

----------------------------------------------------------------------------
(* Properties of lower_requirements and of the order of try_from's result *)

LoweredAll == pc = "lowered_all"
UvRequirementsResult == Unwrap(lowered)
BaseTexts == unwrap_or_default(TheProject.dependencies)
GroupEntries == unwrap_or_default(TheProject.optional_dependencies)
\* one entry taken alone
Entry(text) ==
    lower_dependency(text, EmptyMap, workspace_sources, workspace_packages)
EveryEntryValid ==
    /\ \A i \in DOMAIN BaseTexts : IsOk(Entry(BaseTexts[i]))
    /\ \A g \in DOMAIN GroupEntries :
          \A i \in DOMAIN GroupEntries[g][2] : IsOk(Entry(GroupEntries[g][2][i]))
\* a group that is not asked for holds an entry that is not valid
InvalidInUnrequestedGroup ==
    \E g \in DOMAIN GroupEntries :
        /\ ~ExtraRequested(GroupEntries[g][1])
        /\ \E i \in DOMAIN GroupEntries[g][2] : ~IsOk(Entry(GroupEntries[g][2][i]))

\* C23: lower_requirements lowers every base dependency and every group, and
\* returns an error and no UvRequirements if any entry fails to parse or to
\* lower; try_from then fails with a lowering error, whatever extras are asked
\* for
C23_AllOrNothing ==
    /\ LoweredAll =>
          IF EveryEntryValid
          THEN /\ IsOk(UvRequirementsResult)
               /\ Len(UvRequirementsResult.value.dependencies) = Len(BaseTexts)
               /\ Len(UvRequirementsResult.value.optional_dependencies)
                     = Len(GroupEntries)
               /\ \A g \in DOMAIN GroupEntries :
                     Len(UvRequirementsResult.value.optional_dependencies[g][2])
                        = Len(GroupEntries[g][2])
          ELSE IsErr(UvRequirementsResult)
    /\ (Extracted /\ ~EveryEntryValid) =>
          /\ IsErr(Extraction)
          /\ Extraction.error.type = "LoweringError"

C23_Witness ==
    /\ Extracted
    /\ Requested = ExtrasSome(<<"dev">>)
    /\ \A i \in DOMAIN BaseTexts : IsOk(Entry(BaseTexts[i]))
    /\ InvalidInUnrequestedGroup
    /\ \A g \in DOMAIN GroupEntries :
          GroupEntries[g][1] = "dev" =>
             /\ GroupEntries[g][2] # <<>>
             /\ \A i \in DOMAIN GroupEntries[g][2] : IsOk(Entry(GroupEntries[g][2][i]))
    /\ IsErr(Extraction)

\* the lowerings of the texts of a list, one by one
EntryValues(texts) == [i \in DOMAIN texts |-> Entry(texts[i]).value]
\* the groups as lowered one by one, under their keys, in the manifest's order
GroupValues ==
    [g \in DOMAIN GroupEntries |->
        <<GroupEntries[g][1], EntryValues(GroupEntries[g][2])>>]
\* the flattenings of the requested groups from position `g` on, in the order
\* of the manifest's keys
RECURSIVE RequestedInKeyOrder(_)
RequestedInKeyOrder(g) ==
    IF g > Len(GroupEntries) THEN <<>>
    ELSE (IF ExtraRequested(GroupEntries[g][1])
          THEN flatten_extra(ProjectName, GroupValues[g][2], GroupValues)
          ELSE <<>>) \o RequestedInKeyOrder(g + 1)

\* C24: on success lower_requirements returns the dependencies in the
\* manifest's order (element i the lowering of entry i) and the groups in the
\* manifest's key order, each group's entries in order; try_from returns the
\* whole lowered base list, self-references included, followed by the
\* flattenings of the requested extras in the map's key order
C24_OrderPreserved ==
    /\ (LoweredAll /\ IsOk(UvRequirementsResult)) =>
          /\ UvRequirementsResult.value.dependencies = EntryValues(BaseTexts)
          /\ UvRequirementsResult.value.optional_dependencies = GroupValues
    /\ (Extracted /\ IsOk(Extraction) /\ Extraction.value # None) =>
          Extraction.value[1].requirements
              = EntryValues(BaseTexts) \o RequestedInKeyOrder(1)

C24_Witness ==
    /\ Extracted
    /\ Requested = ExtrasSome(<<"test", "dev">>)
    /\ BaseTexts = <<"proj[test]>=0">>
    /\ GroupEntries = << <<"dev", <<"pep517>=1">> >>, <<"test", <<"tomli>=2">> >> >>
    /\ IsOk(Extraction)
    /\ Extraction.value[1].requirements
          = <<Entry("proj[test]>=0").value, Entry("pep517>=1").value,
              Entry("tomli>=2").value>>

\* the requirements try_from returns when `request` is asked for
RequirementsFor(request) ==
    try_from(Manifest, request, workspace_sources,
             workspace_packages).value[1].requirements
\* what asking for `extra` alone adds to the base dependencies
Alone(extra) ==
    SubSeq(RequirementsFor(ExtrasSome(<<extra>>)),
           Len(RequirementsFor(ExtrasNone)) + 1,
           Len(RequirementsFor(ExtrasSome(<<extra>>))))
RECURSIVE AloneInKeyOrder(_)
AloneInKeyOrder(g) ==
    IF g > Len(GroupEntries) THEN <<>>
    ELSE (IF ExtraRequested(GroupEntries[g][1])
          THEN Alone(GroupEntries[g][1])
          ELSE <<>>) \o AloneInKeyOrder(g + 1)

\* C29: the requirements try_from returns for a set of requested extras are
\* the base dependencies followed by what each requested extra adds when asked
\* for alone: each is flattened with a visited set of its own, so a group
\* reached directly and through another requested group contributes once per
\* path
C29_FreshVisitedSetPerExtra ==
    (Extracted /\ IsOk(Extraction) /\ Extraction.value # None) =>
        Extraction.value[1].requirements
            = RequirementsFor(ExtrasNone) \o AloneInKeyOrder(1)

C29_Witness ==
    /\ Extracted
    /\ Requested = ExtrasAll
    /\ BaseTexts = <<>>
    /\ GroupEntries = << <<"test", <<"pep517>=1">> >>,
                         <<"dev", <<"tomli>=2", "proj[test]>=0">> >> >>
    /\ IsOk(Extraction)
    /\ Extraction.value[1].requirements
          = <<Entry("pep517>=1").value, Entry("tomli>=2").value,
              Entry("pep517>=1").value>>

====
